---- MODULE Spec2Model ----
(***************************************************************************)
(* Model of the OUUCodingStandard sample module: the awesomeness           *)
(* classifier driven by the console variable                               *)
(* ouu.CodingStandard.MinAwesomeness, the LexToString / TryLexFromString   *)
(* pair, the FNumericAwesomeness value type and the AOUUExampleCharacter   *)
(* that holds one such value and announces changes of its level.           *)
(*                                                                         *)
(* The state is the console variable plus a record of the last call that   *)
(* a client of the module made (the operation, its arguments and what it   *)
(* returned).  Every function of the module is an operator that computes   *)
(* what the C++ computes; every action is one complete call.               *)
(***************************************************************************)
EXTENDS Integers, Sequences, FiniteSets, TLC

VARIABLES
    CVar_MinAwesomeness,  \* value held by the console variable
    nWrites,              \* number of console writes to the variable so far
    call,                 \* the last completed call: operation, arguments, result
    CharacterData,        \* AOUUExampleCharacter::CharacterData
    Score,                \* AOUUExampleCharacter::Score
    HeadColor,            \* AOUUExampleCharacter::HeadColor
    TorsoColor,           \* AOUUExampleCharacter::TorsoColor
    bWasColorChanged,     \* AOUUExampleCharacter::bWasColorChanged
    OnAwesomenessChanged, \* invocation list of the event: handles, oldest first
    BoundDelegateHandle,  \* AOUUExampleCharacter::BoundDelegateHandle, 0 when invalid
    NextDelegateHandleID, \* the id the next binding of a delegate receives
    bActorHasBegunPlay,   \* Super::BeginPlay has run and Super::EndPlay has not yet
    bCrashed,             \* a fatal check has terminated the process
    thread                \* a classifier call in progress on another thread

characterVars ==
    <<CharacterData, Score, HeadColor, TorsoColor, bWasColorChanged,
      OnAwesomenessChanged, BoundDelegateHandle, NextDelegateHandleID,
      bActorHasBegunPlay, bCrashed>>

vars == <<CVar_MinAwesomeness, nWrites, call, characterVars, thread>>

----------------------------------------------------------------------------
(* Bounds of the exploration *)

\* scores -MaxScore..MaxScore are explored next to the landmark scores
MaxScore == 2
\* thresholds -MaxThreshold..MaxThreshold are explored next to the landmarks
MaxThreshold == 2
\* the console writes the variable at most this many times in one run
MaxWrites == 2
\* how far outside NotAwesome..NumOf the enum arguments of LexToString go
MaxInvalidLevel == 2
\* BeginPlay binds the character's handler at most this many times in one run
MaxBeginPlay == 2

----------------------------------------------------------------------------
(* Types of the program *)

\* int32
INT32_MAX == 2147483647
INT32_MIN == (0 - INT32_MAX) - 1

\* enum class EAwesomenessLevel, by underlying value
NotAwesome == 0
SemiAwesome == 1
Awesome == 2
NumOf == 3

\* initial value of the console variable
DefaultMinAwesomeness == 100

\* enum class EOUUExampleBodyPartColor : uint8, by underlying value
Red == 0
Green == 1
Blue == 2
Count == 3

\* every enumerator of EOUUExampleBodyPartColor, the hidden Count included
BodyPartColors == Red .. Count

\* AOUUExampleCharacter::HeadBodyPartName, TorsoBodyPartName
HeadBodyPartName == "Head"
TorsoBodyPartName == "Body"

\* FName arguments handed to ColorBodyPart: the two parts and an unknown one
BodyPartNames == {HeadBodyPartName, TorsoBodyPartName, "Tail"}

\* a default-constructed, or reset, FDelegateHandle
InvalidDelegateHandle == 0

\* int32 arguments handed to AwesomenessLevelFromIntValue
Scores ==
    ((0 - MaxScore) .. MaxScore)
        \cup {INT32_MIN, -6, -5, -1, 49, 50, 51, 60, 99, 100, 101, 999, 1000, 1001, INT32_MAX}

\* int32 values the console writes to the variable
Thresholds ==
    ((0 - MaxThreshold) .. MaxThreshold)
        \cup {INT32_MIN, -5, 50, 61, 100, 1000, INT32_MAX}

\* scores of the FNumericAwesomeness values that are constructed
ValueScores == ((0 - MaxScore) .. MaxScore) \cup {INT32_MIN, INT32_MAX}

\* reasons of the FNumericAwesomeness values that are constructed
Reasons == {"", "unknown reason", "set by SetAwesomeness"}

\* values of type EAwesomenessLevel, the out-of-range ones included
LevelValues == (NotAwesome - MaxInvalidLevel) .. (NumOf + MaxInvalidLevel)

----------------------------------------------------------------------------
(* OUU::CodingStandard free functions *)

\* TAutoConsoleVariable<int32>::GetValueOnAnyThread
GetValueOnAnyThread == CVar_MinAwesomeness

\* the classifier with the magic number the code comments out
AwesomenessLevelFromIntValue_MagicNumber(Awesomeness) ==
    IF Awesomeness < 0
    THEN NotAwesome
    ELSE IF Awesomeness < 100
         THEN SemiAwesome
         ELSE Awesome

\* the classifier with the threshold comparison ahead of the negativity check
AwesomenessLevelFromIntValue_ThresholdFirst(Awesomeness) ==
    IF Awesomeness < GetValueOnAnyThread
    THEN SemiAwesome
    ELSE IF Awesomeness < 0
         THEN NotAwesome
         ELSE Awesome

\* the classifier that treats a score of zero as negative
AwesomenessLevelFromIntValue_ZeroNegative(Awesomeness) ==
    IF Awesomeness <= 0
    THEN NotAwesome
    ELSE IF Awesomeness < GetValueOnAnyThread
         THEN SemiAwesome
         ELSE Awesome

\* the classifier with a non-strict threshold comparison
AwesomenessLevelFromIntValue_NonStrict(Awesomeness) ==
    IF Awesomeness < 0
    THEN NotAwesome
    ELSE IF Awesomeness <= GetValueOnAnyThread
         THEN SemiAwesome
         ELSE Awesome

\* the classifier with the two upper levels swapped
AwesomenessLevelFromIntValue_Swapped(Awesomeness) ==
    IF Awesomeness < 0
    THEN NotAwesome
    ELSE IF Awesomeness < GetValueOnAnyThread
         THEN Awesome
         ELSE SemiAwesome

\* the classifier whose negativity check only answers below the threshold
AwesomenessLevelFromIntValue_NegativeBelowThreshold(Awesomeness) ==
    IF Awesomeness < 0 /\ Awesomeness < GetValueOnAnyThread
    THEN NotAwesome
    ELSE IF Awesomeness < GetValueOnAnyThread
         THEN SemiAwesome
         ELSE Awesome

AwesomenessLevelFromIntValue(Awesomeness) ==
    IF Awesomeness < 0
    THEN NotAwesome
    ELSE IF Awesomeness < GetValueOnAnyThread
         THEN SemiAwesome
         ELSE Awesome

\* LexToString that names the NumOf sentinel
LexToString_NamesNumOf(AwesomenessLevel) ==
    CASE AwesomenessLevel = NotAwesome -> "NotAwesome"
      [] AwesomenessLevel = SemiAwesome -> "SemiAwesome"
      [] AwesomenessLevel = Awesome -> "Awesome"
      [] AwesomenessLevel = NumOf -> "NumOf"
      [] OTHER -> "<invalid>"

LexToString(AwesomenessLevel) ==
    CASE AwesomenessLevel = NotAwesome -> "NotAwesome"
      [] AwesomenessLevel = SemiAwesome -> "SemiAwesome"
      [] AwesomenessLevel = Awesome -> "Awesome"
      [] OTHER -> "<invalid>"

\* TryLexFromString that parses the three literals
TryLexFromString_Parsing(OutAwesomenessLevel, String) ==
    IF \E Level \in {NotAwesome, SemiAwesome, Awesome} : LexToString(Level) = String
    THEN [ret |-> TRUE,
          OutAwesomenessLevel |->
              CHOOSE Level \in {NotAwesome, SemiAwesome, Awesome} : LexToString(Level) = String]
    ELSE [ret |-> FALSE, OutAwesomenessLevel |-> OutAwesomenessLevel]

\* returns false; the out parameter is left as the caller passed it
TryLexFromString(OutAwesomenessLevel, String) ==
    [ret |-> FALSE, OutAwesomenessLevel |-> OutAwesomenessLevel]

----------------------------------------------------------------------------
(* struct FNumericAwesomeness *)

\* FNumericAwesomeness() = default, from the default member initializers
FNumericAwesomeness_Default ==
    [AwesomenessReason |-> "", Awesomeness |-> 0]

\* the two-argument constructor that drops the score
FNumericAwesomeness_Init_DropsScore(InAwesomeness, InAwesomenessReason) ==
    [AwesomenessReason |-> InAwesomenessReason, Awesomeness |-> 0]

\* FNumericAwesomeness(int32, const FString&)
FNumericAwesomeness_Init(InAwesomeness, InAwesomenessReason) ==
    [AwesomenessReason |-> InAwesomenessReason, Awesomeness |-> InAwesomeness]

\* the one-argument constructor that does not delegate the reason
FNumericAwesomeness_FromScore_NoReason(InAwesomeness) ==
    FNumericAwesomeness_Init(InAwesomeness, "")

\* explicit FNumericAwesomeness(int32)
FNumericAwesomeness_FromScore(InAwesomeness) ==
    FNumericAwesomeness_Init(InAwesomeness, "unknown reason")

\* operator== that compares the reason as well
operator_eq_Memberwise(LHS, RHS) ==
    /\ LHS.Awesomeness = RHS.Awesomeness
    /\ LHS.AwesomenessReason = RHS.AwesomenessReason

\* bool operator==(const FNumericAwesomeness&, const FNumericAwesomeness&)
operator_eq(LHS, RHS) ==
    LHS.Awesomeness = RHS.Awesomeness

\* operator< with the operands the wrong way round
operator_lt_Reversed(LHS, RHS) ==
    RHS.Awesomeness < LHS.Awesomeness

\* bool operator<(const FNumericAwesomeness&, const FNumericAwesomeness&)
operator_lt(LHS, RHS) ==
    LHS.Awesomeness < RHS.Awesomeness

\* FNumericAwesomeness::GetAwesomenessLevel that rates a value without a reason
\* as NotAwesome
GetAwesomenessLevel_NeedsReason(Self) ==
    IF Self.AwesomenessReason = ""
    THEN NotAwesome
    ELSE AwesomenessLevelFromIntValue(Self.Awesomeness)

\* EAwesomenessLevel FNumericAwesomeness::GetAwesomenessLevel() const
GetAwesomenessLevel(Self) ==
    AwesomenessLevelFromIntValue(Self.Awesomeness)

\* GetAwesomenessThreshold that returns the value the variable was declared with
GetAwesomenessThreshold_Declared == DefaultMinAwesomeness

\* UOUUExampleBlueprintFunctionLibrary::GetAwesomenessThreshold
GetAwesomenessThreshold == GetValueOnAnyThread

\* every FNumericAwesomeness a client can construct within the bounds
NumericAwesomenessValues ==
    {FNumericAwesomeness_Default}
        \cup {FNumericAwesomeness_FromScore(s) : s \in ValueScores}
        \cup {FNumericAwesomeness_Init(s, r) : s \in ValueScores, r \in Reasons}

----------------------------------------------------------------------------
(* Construction of the character *)

\* the constructor that gives the torso the colour of the head
AOUUExampleCharacter_Init_TorsoFollowsHead(InHeadColor) ==
    [HeadColor |-> InHeadColor,
     TorsoColor |-> InHeadColor,
     bWasColorChanged |-> FALSE,
     Score |-> 0,
     CharacterData |-> FNumericAwesomeness_Default,
     OnAwesomenessChanged |-> <<>>,
     BoundDelegateHandle |-> InvalidDelegateHandle]

\* AOUUExampleCharacter(USkeletalMesh*, EOUUExampleBodyPartColor): the members
\* after construction; the head mesh component carries no state of its own here
AOUUExampleCharacter_Init(InHeadColor) ==
    [HeadColor |-> InHeadColor,
     TorsoColor |-> Red,
     bWasColorChanged |-> FALSE,
     Score |-> 0,
     CharacterData |-> FNumericAwesomeness_Default,
     OnAwesomenessChanged |-> <<>>,
     BoundDelegateHandle |-> InvalidDelegateHandle]

\* AOUUExampleCharacter(): delegates to (nullptr, Red)
AOUUExampleCharacter_Default == AOUUExampleCharacter_Init(Red)

\* the character members hold what the constructor left in This
Constructed(This) ==
    /\ CharacterData = This.CharacterData
    /\ Score = This.Score
    /\ HeadColor = This.HeadColor
    /\ TorsoColor = This.TorsoColor
    /\ bWasColorChanged = This.bWasColorChanged
    /\ OnAwesomenessChanged = This.OnAwesomenessChanged
    /\ BoundDelegateHandle = This.BoundDelegateHandle
    /\ NextDelegateHandleID = 1
    /\ bActorHasBegunPlay = FALSE
    /\ bCrashed = FALSE

----------------------------------------------------------------------------
(* class AOUUExampleCharacter *)

\* EAwesomenessLevel AOUUExampleCharacter::GetAwesomenessLevel() const
AOUUExampleCharacter_GetAwesomenessLevel ==
    GetAwesomenessLevel(CharacterData)

\* void HandleOwnAwesomenessChanged(EAwesomenessLevel) const: the lines it logs,
\* one from UE_LOG and one from UE_CLOG
HandleOwnAwesomenessChanged(Awesomeness) ==
    IF Awesomeness = Awesome
    THEN <<"just became AWESOME!", "just became AWESOME!">>
    ELSE <<>>

\* OnAwesomenessChanged.Broadcast(Payload): every bound handler is invoked, the
\* most recently bound one first; VisibleData is the CharacterData a handler
\* finds in the character while the broadcast runs
Broadcast(Payload, VisibleData) ==
    [Awesomeness |-> Payload,
     CharacterData |-> VisibleData,
     Invoked |->
         [i \in 1 .. Len(OnAwesomenessChanged) |->
             [Handle |-> OnAwesomenessChanged[Len(OnAwesomenessChanged) + 1 - i],
              Log |-> HandleOwnAwesomenessChanged(Payload)]]]

\* SetAwesomeness that broadcasts on every call
SetAwesomeness_AlwaysBroadcasts(Awesomeness) ==
    LET NewData == FNumericAwesomeness_Init(Awesomeness, "set by SetAwesomeness")
        NewAwesomenessLevel == GetAwesomenessLevel(NewData)
    IN  [CharacterData |-> NewData,
         Broadcasts |-> <<Broadcast(NewAwesomenessLevel, NewData)>>]

\* SetAwesomeness that broadcasts before it stores the new data
SetAwesomeness_NotifiesFirst(Awesomeness) ==
    LET AwesomenessLevelBefore == GetAwesomenessLevel(CharacterData)
        NewData == FNumericAwesomeness_Init(Awesomeness, "set by SetAwesomeness")
        NewAwesomenessLevel == GetAwesomenessLevel(NewData)
    IN  [CharacterData |-> NewData,
         Broadcasts |->
             IF NewAwesomenessLevel # AwesomenessLevelBefore
             THEN <<Broadcast(NewAwesomenessLevel, CharacterData)>>
             ELSE <<>>]

\* SetAwesomeness that broadcasts whenever the new level is above NotAwesome
SetAwesomeness_UnlessNotAwesome(Awesomeness) ==
    LET NewData == FNumericAwesomeness_Init(Awesomeness, "set by SetAwesomeness")
        NewAwesomenessLevel == GetAwesomenessLevel(NewData)
    IN  [CharacterData |-> NewData,
         Broadcasts |->
             IF NewAwesomenessLevel # NotAwesome
             THEN <<Broadcast(NewAwesomenessLevel, NewData)>>
             ELSE <<>>]

\* void AOUUExampleCharacter::SetAwesomeness(int32): the data it stores and the
\* broadcasts it makes, in order
SetAwesomeness(Awesomeness) ==
    LET AwesomenessLevelBefore == GetAwesomenessLevel(CharacterData)
        NewData == FNumericAwesomeness_Init(Awesomeness, "set by SetAwesomeness")
        NewAwesomenessLevel == GetAwesomenessLevel(NewData)
    IN  [CharacterData |-> NewData,
         Broadcasts |->
             IF NewAwesomenessLevel # AwesomenessLevelBefore
             THEN <<Broadcast(NewAwesomenessLevel, NewData)>>
             ELSE <<>>]

\* ColorBodyPart with the assignments of the #if 0 block compiled in
ColorBodyPart_ColorsThePart(BodyPartName, BodyPartColor) ==
    IF BodyPartColor = Count
    THEN [bCrashed |-> TRUE,
          HeadColor |-> HeadColor,
          TorsoColor |-> TorsoColor,
          bWasColorChanged |-> bWasColorChanged]
    ELSE [bCrashed |-> FALSE,
          ret |-> FALSE,
          HeadColor |-> IF BodyPartName = HeadBodyPartName THEN BodyPartColor ELSE HeadColor,
          TorsoColor |-> IF BodyPartName = TorsoBodyPartName THEN BodyPartColor ELSE TorsoColor,
          bWasColorChanged |-> TRUE]

\* ColorBodyPart whose check lets the Count case pass
ColorBodyPart_CountPasses(BodyPartName, BodyPartColor) ==
    [bCrashed |-> FALSE,
     ret |-> FALSE,
     HeadColor |-> HeadColor,
     TorsoColor |-> TorsoColor,
     bWasColorChanged |-> TRUE]

\* bool AOUUExampleCharacter::ColorBodyPart(FName, EOUUExampleBodyPartColor):
\* the ensure reports and goes on, the check is fatal; the assignments to
\* HeadColor and TorsoColor are compiled out (#if 0)
ColorBodyPart(BodyPartName, BodyPartColor) ==
    IF BodyPartColor = Count
    THEN [bCrashed |-> TRUE,
          HeadColor |-> HeadColor,
          TorsoColor |-> TorsoColor,
          bWasColorChanged |-> bWasColorChanged]
    ELSE [bCrashed |-> FALSE,
          ret |-> FALSE,
          HeadColor |-> HeadColor,
          TorsoColor |-> TorsoColor,
          bWasColorChanged |-> TRUE]

RECURSIVE HasAllColorsPossible_From(_)
\* the loop of HasAllColorsPossible over TEnumRange from Color on; Count ends
\* the range.  The result names the colour at which the loop stopped.
HasAllColorsPossible_From(Color) ==
    IF Color = Count
    THEN [ret |-> TRUE, Color |-> Count]
    ELSE IF HeadColor # Color /\ TorsoColor # Color
         THEN [ret |-> FALSE, Color |-> Color]
         ELSE HasAllColorsPossible_From(Color + 1)

\* HasAllColorsPossible that is content when some colour of the range is in use
HasAllColorsPossible_AnyColor ==
    IF \E Color \in Red .. (Count - 1) : HeadColor = Color \/ TorsoColor = Color
    THEN [ret |-> TRUE, Color |-> Count]
    ELSE [ret |-> FALSE, Color |-> Red]

\* HasAllColorsPossible that asks whether every part has a colour of the range
HasAllColorsPossible_EveryPartColored ==
    IF HeadColor \in Red .. (Count - 1) /\ TorsoColor \in Red .. (Count - 1)
    THEN [ret |-> TRUE, Color |-> Count]
    ELSE HasAllColorsPossible_From(Red)

\* bool AOUUExampleCharacter::HasAllColorsPossible() const
HasAllColorsPossible == HasAllColorsPossible_From(Red)

\* int32 arguments handed to SetAwesomeness
CharacterScores == ValueScores

----------------------------------------------------------------------------
(* Initial state: the module is loaded, nothing has been called *)

Init ==
    /\ CVar_MinAwesomeness = DefaultMinAwesomeness
    /\ nWrites = 0
    /\ call = [op |-> "none"]
    /\ Constructed(AOUUExampleCharacter_Default)
    /\ thread = [pc |-> "idle"]

\* the same, for a character made by either constructor with any head colour;
\* call records the constructor and its argument
InitConstructed ==
    /\ CVar_MinAwesomeness = DefaultMinAwesomeness
    /\ nWrites = 0
    /\ thread = [pc |-> "idle"]
    /\ \/ /\ call = [op |-> "AOUUExampleCharacter()"]
          /\ Constructed(AOUUExampleCharacter_Default)
       \/ \E InHeadColor \in BodyPartColors :
              /\ call = [op |-> "AOUUExampleCharacter(USkeletalMesh*, EOUUExampleBodyPartColor)",
                         InHeadColor |-> InHeadColor]
              /\ Constructed(AOUUExampleCharacter_Init(InHeadColor))

----------------------------------------------------------------------------
(* Actions: one per call *)

\* the console sets ouu.CodingStandard.MinAwesomeness; no validation
SetMinAwesomeness ==
    \E Value \in Thresholds :
        /\ ~bCrashed
        /\ nWrites < MaxWrites
        /\ CVar_MinAwesomeness' = Value
        /\ nWrites' = nWrites + 1
        /\ call' = [op |-> "SetMinAwesomeness", Value |-> Value]
        /\ thread' = IF thread.pc \in {"idle", "returned"}
                     THEN thread
                     ELSE [thread EXCEPT !.Held = @ \cup {Value}]
        /\ UNCHANGED characterVars

CallAwesomenessLevelFromIntValue ==
    \E Awesomeness \in Scores :
        /\ ~bCrashed
        /\ call' = [op |-> "AwesomenessLevelFromIntValue",
                    Awesomeness |-> Awesomeness,
                    ret |-> AwesomenessLevelFromIntValue(Awesomeness)]
        /\ UNCHANGED <<CVar_MinAwesomeness, nWrites, characterVars, thread>>

CallLexToString ==
    \E AwesomenessLevel \in LevelValues :
        /\ call' = [op |-> "LexToString",
                    AwesomenessLevel |-> AwesomenessLevel,
                    ret |-> LexToString(AwesomenessLevel)]
        /\ UNCHANGED <<CVar_MinAwesomeness, nWrites, characterVars, thread>>

\* the strings handed to TryLexFromString: what LexToString produces, and others
ParseInputs ==
    {LexToString(Level) : Level \in LevelValues} \cup {"", "awesome", "2"}

CallTryLexFromString ==
    \E OutBefore \in {NotAwesome, SemiAwesome, Awesome, NumOf}, String \in ParseInputs :
        LET Result == TryLexFromString(OutBefore, String)
        IN  /\ call' = [op |-> "TryLexFromString",
                        String |-> String,
                        OutBefore |-> OutBefore,
                        OutAwesomenessLevel |-> Result.OutAwesomenessLevel,
                        ret |-> Result.ret]
            /\ UNCHANGED <<CVar_MinAwesomeness, nWrites, characterVars, thread>>

ConstructDefault ==
    /\ call' = [op |-> "FNumericAwesomeness()", ret |-> FNumericAwesomeness_Default]
    /\ UNCHANGED <<CVar_MinAwesomeness, nWrites, characterVars, thread>>

ConstructInit ==
    \E InAwesomeness \in ValueScores, InAwesomenessReason \in Reasons :
        /\ call' = [op |-> "FNumericAwesomeness(int32, FString)",
                    InAwesomeness |-> InAwesomeness,
                    InAwesomenessReason |-> InAwesomenessReason,
                    ret |-> FNumericAwesomeness_Init(InAwesomeness, InAwesomenessReason)]
        /\ UNCHANGED <<CVar_MinAwesomeness, nWrites, characterVars, thread>>

ConstructFromScore ==
    \E InAwesomeness \in ValueScores :
        /\ call' = [op |-> "FNumericAwesomeness(int32)",
                    InAwesomeness |-> InAwesomeness,
                    ret |-> FNumericAwesomeness_FromScore(InAwesomeness)]
        /\ UNCHANGED <<CVar_MinAwesomeness, nWrites, characterVars, thread>>

Compare ==
    \E LHS \in NumericAwesomenessValues, RHS \in NumericAwesomenessValues :
        /\ call' = [op |-> "Compare",
                    LHS |-> LHS,
                    RHS |-> RHS,
                    eq |-> operator_eq(LHS, RHS),
                    lt |-> operator_lt(LHS, RHS),
                    gt |-> operator_lt(RHS, LHS)]
        /\ UNCHANGED <<CVar_MinAwesomeness, nWrites, characterVars, thread>>

CallGetAwesomenessLevel ==
    \E Self \in NumericAwesomenessValues :
        /\ ~bCrashed
        /\ call' = [op |-> "FNumericAwesomeness::GetAwesomenessLevel",
                    Self |-> Self,
                    ret |-> GetAwesomenessLevel(Self)]
        /\ UNCHANGED <<CVar_MinAwesomeness, nWrites, characterVars, thread>>

CallGetAwesomenessThreshold ==
    /\ ~bCrashed
    /\ call' = [op |-> "GetAwesomenessThreshold", ret |-> GetAwesomenessThreshold]
    /\ UNCHANGED <<CVar_MinAwesomeness, nWrites, characterVars, thread>>

\* the accessor that clamps a negative stored score while it classifies
CharacterGetAwesomenessLevel_Clamps ==
    /\ ~bCrashed
    /\ call' = [op |-> "AOUUExampleCharacter::GetAwesomenessLevel",
                ret |-> AOUUExampleCharacter_GetAwesomenessLevel]
    /\ CharacterData' =
           IF CharacterData.Awesomeness < 0
           THEN FNumericAwesomeness_Init(0, CharacterData.AwesomenessReason)
           ELSE CharacterData
    /\ UNCHANGED <<CVar_MinAwesomeness, nWrites, Score, HeadColor, TorsoColor,
                   bWasColorChanged, OnAwesomenessChanged, BoundDelegateHandle,
                   NextDelegateHandleID, bActorHasBegunPlay, bCrashed, thread>>

CharacterGetAwesomenessLevel ==
    /\ ~bCrashed
    /\ call' = [op |-> "AOUUExampleCharacter::GetAwesomenessLevel",
                ret |-> AOUUExampleCharacter_GetAwesomenessLevel]
    /\ UNCHANGED <<CVar_MinAwesomeness, nWrites, characterVars, thread>>

CallSetAwesomeness ==
    \E Awesomeness \in CharacterScores :
        LET Result == SetAwesomeness(Awesomeness)
        IN  /\ ~bCrashed
            /\ CharacterData' = Result.CharacterData
            /\ call' = [op |-> "SetAwesomeness",
                        Awesomeness |-> Awesomeness,
                        Repeated |-> (/\ call.op = "SetAwesomeness"
                                      /\ call.Awesomeness = Awesomeness),
                        Broadcasts |-> Result.Broadcasts]
            /\ UNCHANGED <<CVar_MinAwesomeness, nWrites, Score, HeadColor, TorsoColor,
                           bWasColorChanged, OnAwesomenessChanged, BoundDelegateHandle,
                           NextDelegateHandleID, bActorHasBegunPlay, bCrashed, thread>>

\* BeginPlay: Super::BeginPlay marks the actor as playing, AddUObject appends
\* the handler under a fresh handle
BeginPlay ==
    /\ ~bCrashed
    /\ NextDelegateHandleID <= MaxBeginPlay
    /\ bActorHasBegunPlay' = TRUE
    /\ OnAwesomenessChanged' = Append(OnAwesomenessChanged, NextDelegateHandleID)
    /\ BoundDelegateHandle' = NextDelegateHandleID
    /\ NextDelegateHandleID' = NextDelegateHandleID + 1
    /\ call' = [op |-> "BeginPlay"]
    /\ UNCHANGED <<CVar_MinAwesomeness, nWrites, CharacterData, Score, HeadColor,
                   TorsoColor, bWasColorChanged, bCrashed, thread>>

\* EndPlay that resets the handle without removing the binding
EndPlay_KeepsBinding ==
    /\ ~bCrashed
    /\ bActorHasBegunPlay' = FALSE
    /\ BoundDelegateHandle' = InvalidDelegateHandle
    /\ call' = [op |-> "EndPlay"]
    /\ UNCHANGED <<CVar_MinAwesomeness, nWrites, CharacterData, Score, HeadColor,
                   TorsoColor, bWasColorChanged, OnAwesomenessChanged,
                   NextDelegateHandleID, bCrashed, thread>>

\* EndPlay: Super::EndPlay marks the actor as no longer playing, Remove drops
\* the entry bound under BoundDelegateHandle, if any; Reset invalidates the handle
EndPlay ==
    /\ ~bCrashed
    /\ bActorHasBegunPlay' = FALSE
    /\ OnAwesomenessChanged' =
           SelectSeq(OnAwesomenessChanged, LAMBDA Handle : Handle # BoundDelegateHandle)
    /\ BoundDelegateHandle' = InvalidDelegateHandle
    /\ call' = [op |-> "EndPlay"]
    /\ UNCHANGED <<CVar_MinAwesomeness, nWrites, CharacterData, Score, HeadColor,
                   TorsoColor, bWasColorChanged, NextDelegateHandleID, bCrashed, thread>>

CallColorBodyPart ==
    \E BodyPartName \in BodyPartNames, BodyPartColor \in BodyPartColors :
        LET Result == ColorBodyPart(BodyPartName, BodyPartColor)
        IN  /\ ~bCrashed
            /\ HeadColor' = Result.HeadColor
            /\ TorsoColor' = Result.TorsoColor
            /\ bWasColorChanged' = Result.bWasColorChanged
            /\ bCrashed' = Result.bCrashed
            /\ call' = IF Result.bCrashed
                       THEN [op |-> "ColorBodyPart",
                             BodyPartName |-> BodyPartName,
                             BodyPartColor |-> BodyPartColor,
                             returned |-> FALSE]
                       ELSE [op |-> "ColorBodyPart",
                             BodyPartName |-> BodyPartName,
                             BodyPartColor |-> BodyPartColor,
                             returned |-> TRUE,
                             ret |-> Result.ret]
            /\ UNCHANGED <<CVar_MinAwesomeness, nWrites, CharacterData, Score,
                           OnAwesomenessChanged, BoundDelegateHandle,
                           NextDelegateHandleID, bActorHasBegunPlay, thread>>

CallHasAllColorsPossible ==
    /\ ~bCrashed
    /\ call' = [op |-> "HasAllColorsPossible",
                ret |-> HasAllColorsPossible.ret,
                Color |-> HasAllColorsPossible.Color]
    /\ UNCHANGED <<CVar_MinAwesomeness, nWrites, characterVars, thread>>

\* BeginPlay as the engine's actor lifecycle calls it: on an actor that is not
\* playing
DispatchBeginPlay ==
    /\ ~bActorHasBegunPlay
    /\ BeginPlay

\* EndPlay as the engine's actor lifecycle calls it: on an actor that is playing
RouteEndPlay ==
    /\ bActorHasBegunPlay
    /\ EndPlay

\* a client orders two values and asks each for its level, all under the
\* threshold of the moment
ClassifyPair ==
    \E LHS \in NumericAwesomenessValues, RHS \in NumericAwesomenessValues :
        /\ ~bCrashed
        /\ call' = [op |-> "ClassifyPair",
                    LHS |-> LHS,
                    RHS |-> RHS,
                    eq |-> operator_eq(LHS, RHS),
                    lt |-> operator_lt(LHS, RHS),
                    LevelLHS |-> GetAwesomenessLevel(LHS),
                    LevelRHS |-> GetAwesomenessLevel(RHS)]
        /\ UNCHANGED <<CVar_MinAwesomeness, nWrites, characterVars, thread>>

Next ==
    \/ SetMinAwesomeness
    \/ CallAwesomenessLevelFromIntValue
    \/ CallGetAwesomenessLevel
    \/ CallGetAwesomenessThreshold
    \/ CallLexToString
    \/ CallTryLexFromString
    \/ ConstructDefault
    \/ ConstructInit
    \/ ConstructFromScore
    \/ Compare

Spec == Init /\ [][Next]_vars

----------------------------------------------------------------------------
(* AwesomenessLevelFromIntValue called on another thread, statement by        *)
(* statement, while the console may write the variable.  Held collects the   *)
(* values the variable has held since the call began, nReads counts the      *)
(* reads of the variable the call has made.                                  *)

Thread_Enter ==
    \E Awesomeness \in Scores :
        /\ ~bCrashed
        /\ thread.pc \in {"idle", "returned"}
        /\ thread' = [pc |-> "CheckNegative",
                      Awesomeness |-> Awesomeness,
                      nReads |-> 0,
                      Held |-> {CVar_MinAwesomeness}]
        /\ UNCHANGED <<CVar_MinAwesomeness, nWrites, call, characterVars>>

\* the first statement reads the variable before it looks at the sign
Thread_CheckNegative_ReadsFirst ==
    /\ ~bCrashed
    /\ thread.pc = "CheckNegative"
    /\ thread' = IF thread.Awesomeness < 0
                 THEN [pc |-> "returned",
                       Awesomeness |-> thread.Awesomeness,
                       nReads |-> thread.nReads + 1,
                       Held |-> thread.Held,
                       ret |-> NotAwesome]
                 ELSE [thread EXCEPT !.pc = "ReadThreshold"]
    /\ UNCHANGED <<CVar_MinAwesomeness, nWrites, call, characterVars>>

\* if (Awesomeness < 0) return EAwesomenessLevel::NotAwesome;
Thread_CheckNegative ==
    /\ ~bCrashed
    /\ thread.pc = "CheckNegative"
    /\ thread' = IF thread.Awesomeness < 0
                 THEN [pc |-> "returned",
                       Awesomeness |-> thread.Awesomeness,
                       nReads |-> thread.nReads,
                       Held |-> thread.Held,
                       ret |-> NotAwesome]
                 ELSE [thread EXCEPT !.pc = "ReadThreshold"]
    /\ UNCHANGED <<CVar_MinAwesomeness, nWrites, call, characterVars>>

\* Private::CVar_MinAwesomeness.GetValueOnAnyThread()
Thread_ReadThreshold ==
    /\ ~bCrashed
    /\ thread.pc = "ReadThreshold"
    /\ thread' = [pc |-> "Compare",
                  Awesomeness |-> thread.Awesomeness,
                  nReads |-> thread.nReads + 1,
                  Held |-> thread.Held,
                  MinAwesomeness |-> GetValueOnAnyThread]
    /\ UNCHANGED <<CVar_MinAwesomeness, nWrites, call, characterVars>>

\* if (Awesomeness < <the value read>) return SemiAwesome; return Awesome;
Thread_Compare ==
    /\ ~bCrashed
    /\ thread.pc = "Compare"
    /\ thread' = [pc |-> "returned",
                  Awesomeness |-> thread.Awesomeness,
                  nReads |-> thread.nReads,
                  Held |-> thread.Held,
                  ret |-> IF thread.Awesomeness < thread.MinAwesomeness
                          THEN SemiAwesome
                          ELSE Awesome]
    /\ UNCHANGED <<CVar_MinAwesomeness, nWrites, call, characterVars>>

NextConcurrent ==
    \/ SetMinAwesomeness
    \/ Thread_Enter
    \/ Thread_CheckNegative
    \/ Thread_ReadThreshold
    \/ Thread_Compare

SpecConcurrent == Init /\ [][NextConcurrent]_vars

\* the character in play: its operations and the console
NextCharacter ==
    \/ SetMinAwesomeness
    \/ CharacterGetAwesomenessLevel
    \/ CallSetAwesomeness
    \/ BeginPlay
    \/ EndPlay
    \/ CallColorBodyPart

SpecCharacter == Init /\ [][NextCharacter]_vars

\* the three classifying calls next to everything that changes what they read
NextClassifying ==
    \/ SetMinAwesomeness
    \/ CallAwesomenessLevelFromIntValue
    \/ CallGetAwesomenessLevel
    \/ CharacterGetAwesomenessLevel
    \/ CallSetAwesomeness
    \/ BeginPlay
    \/ EndPlay
    \/ CallColorBodyPart

SpecClassifying == Init /\ [][NextClassifying]_vars

\* every operation of a character made by either constructor
NextConstructed ==
    \/ SetMinAwesomeness
    \/ CharacterGetAwesomenessLevel
    \/ CallSetAwesomeness
    \/ BeginPlay
    \/ EndPlay
    \/ CallColorBodyPart
    \/ CallHasAllColorsPossible

SpecConstructed == InitConstructed /\ [][NextConstructed]_vars

\* the character within the actor lifecycle: BeginPlay and EndPlay alternate
NextLifecycle ==
    \/ SetMinAwesomeness
    \/ CallSetAwesomeness
    \/ DispatchBeginPlay
    \/ RouteEndPlay

SpecLifecycle == Init /\ [][NextLifecycle]_vars

\* pairs of values ordered and classified while the console writes the variable
NextOrdering ==
    \/ SetMinAwesomeness
    \/ ClassifyPair

SpecOrdering == Init /\ [][NextOrdering]_vars

----------------------------------------------------------------------------
(* Properties of the classifier *)

IsClassify == call.op = "AwesomenessLevelFromIntValue"

\* C1: a negative score classifies as NotAwesome whatever the threshold is,
\* negative and zero thresholds included.
C1_NegativeScoreIsNotAwesome ==
    (IsClassify /\ call.Awesomeness < 0) => call.ret = NotAwesome

\* a negative score at or above a negative threshold was classified
C1_Witness ==
    /\ IsClassify
    /\ call.Awesomeness < 0
    /\ CVar_MinAwesomeness < 0
    /\ call.Awesomeness >= CVar_MinAwesomeness
    /\ call.ret = NotAwesome

\* C2: a score s with 0 <= s < T, T the current threshold, classifies as
\* SemiAwesome.
C2_BelowThresholdIsSemiAwesome ==
    (IsClassify /\ 0 <= call.Awesomeness /\ call.Awesomeness < CVar_MinAwesomeness)
        => call.ret = SemiAwesome

\* score 0 was classified under a positive threshold
C2_Witness ==
    /\ IsClassify
    /\ call.Awesomeness = 0
    /\ CVar_MinAwesomeness > 0
    /\ call.ret = SemiAwesome

\* C3: a score s with s >= 0 and s >= T, T the current threshold, classifies
\* as Awesome.
C3_AtOrAboveThresholdIsAwesome ==
    (IsClassify /\ call.Awesomeness >= 0 /\ call.Awesomeness >= CVar_MinAwesomeness)
        => call.ret = Awesome

\* a non-negative score above a threshold that was written was classified
C3_Witness ==
    /\ IsClassify
    /\ nWrites > 0
    /\ call.Awesomeness >= 0
    /\ call.Awesomeness > CVar_MinAwesomeness
    /\ call.ret = Awesome

\* C4: the threshold comparison is strict: a score equal to a threshold
\* T >= 0 is Awesome and the score T-1 >= 0 is SemiAwesome; under the default
\* threshold 100 the scores 0 and 99 are SemiAwesome and 100 is Awesome.
C4_ThresholdComparisonIsStrict ==
    IsClassify =>
        /\ (call.Awesomeness = CVar_MinAwesomeness /\ CVar_MinAwesomeness >= 0)
               => call.ret = Awesome
        /\ (/\ call.Awesomeness >= 0
            /\ CVar_MinAwesomeness > 0
            /\ call.Awesomeness = CVar_MinAwesomeness - 1)
               => call.ret = SemiAwesome
        /\ (CVar_MinAwesomeness = 100 /\ call.Awesomeness = 0) => call.ret = SemiAwesome
        /\ (CVar_MinAwesomeness = 100 /\ call.Awesomeness = 99) => call.ret = SemiAwesome
        /\ (CVar_MinAwesomeness = 100 /\ call.Awesomeness = 100) => call.ret = Awesome

\* score 100 was classified under the default threshold, never written
C4_Witness ==
    /\ IsClassify
    /\ nWrites = 0
    /\ CVar_MinAwesomeness = DefaultMinAwesomeness
    /\ call.Awesomeness = 100
    /\ call.ret = Awesome

\* C5: the threshold is read on every call: every classification of a score
\* s >= 0 is decided by the value the variable holds when the call is made,
\* that is the most recently written one.
C5_ThresholdReadOnEveryCall ==
    [][(call'.op = "AwesomenessLevelFromIntValue" /\ call'.Awesomeness >= 0)
          => call'.ret = (IF call'.Awesomeness < CVar_MinAwesomeness
                          THEN SemiAwesome
                          ELSE Awesome)]_vars

\* after two writes, the last one 1000, score 60 was classified SemiAwesome
C5_Witness ==
    /\ IsClassify
    /\ nWrites >= 2
    /\ CVar_MinAwesomeness = 1000
    /\ call.Awesomeness = 60
    /\ call.ret = SemiAwesome

----------------------------------------------------------------------------
(* Properties of the string conversions *)

\* C6: LexToString maps NotAwesome, SemiAwesome and Awesome to their names and
\* every other enum value, NumOf included, to "<invalid>"; it always returns.
C6_LexToStringTable ==
    call.op = "LexToString" =>
        /\ call.AwesomenessLevel = NotAwesome => call.ret = "NotAwesome"
        /\ call.AwesomenessLevel = SemiAwesome => call.ret = "SemiAwesome"
        /\ call.AwesomenessLevel = Awesome => call.ret = "Awesome"
        /\ call.AwesomenessLevel \notin {NotAwesome, SemiAwesome, Awesome}
               => call.ret = "<invalid>"
        /\ call.ret \in {"NotAwesome", "SemiAwesome", "Awesome", "<invalid>"}

\* LexToString was called with the NumOf sentinel
C6_Witness ==
    /\ call.op = "LexToString"
    /\ call.AwesomenessLevel = NumOf
    /\ call.ret = "<invalid>"

\* C7: TryLexFromString returns false for every string, the literals that
\* LexToString produces included; the boolean is the only signal, the out
\* parameter is as the caller passed it.
C7_TryLexFromStringAlwaysFails ==
    call.op = "TryLexFromString" =>
        /\ call.ret = FALSE
        /\ call.OutAwesomenessLevel = call.OutBefore

\* TryLexFromString was called with the literal of Awesome
C7_Witness ==
    /\ call.op = "TryLexFromString"
    /\ call.String = LexToString(Awesome)
    /\ call.String = "Awesome"
    /\ call.ret = FALSE

----------------------------------------------------------------------------
(* Properties of FNumericAwesomeness *)

\* C8: a == b exactly when the scores are equal and a < b exactly when a's
\* score is less than b's; the reason influences neither.
C8_ComparisonOnScoreOnly ==
    call.op = "Compare" =>
        /\ call.eq <=> (call.LHS.Awesomeness = call.RHS.Awesomeness)
        /\ call.lt <=> (call.LHS.Awesomeness < call.RHS.Awesomeness)
        /\ call.gt <=> (call.RHS.Awesomeness < call.LHS.Awesomeness)

\* two values with equal score and different reasons were compared
C8_Witness ==
    /\ call.op = "Compare"
    /\ call.LHS.Awesomeness = call.RHS.Awesomeness
    /\ call.LHS.AwesomenessReason # call.RHS.AwesomenessReason
    /\ call.eq
    /\ ~call.lt
    /\ ~call.gt

\* C9: construction from a score alone gives the given score and the reason
\* "unknown reason", the state of the construction (score, "unknown reason").
C9_FromScoreHasUnknownReason ==
    call.op = "FNumericAwesomeness(int32)" =>
        /\ call.ret.AwesomenessReason = "unknown reason"
        /\ call.ret.Awesomeness = call.InAwesomeness
        /\ call.ret = FNumericAwesomeness_Init(call.InAwesomeness, "unknown reason")

\* a value was constructed from a non-zero score alone
C9_Witness ==
    /\ call.op = "FNumericAwesomeness(int32)"
    /\ call.InAwesomeness # 0
    /\ call.ret.AwesomenessReason = "unknown reason"

\* C10: a default-constructed value has score 0 and an empty reason; the
\* two-argument construction stores the given score and the given reason.
C10_ConstructorsStoreTheirArguments ==
    /\ call.op = "FNumericAwesomeness()" =>
           /\ call.ret.Awesomeness = 0
           /\ call.ret.AwesomenessReason = ""
    /\ call.op = "FNumericAwesomeness(int32, FString)" =>
           /\ call.ret.Awesomeness = call.InAwesomeness
           /\ call.ret.AwesomenessReason = call.InAwesomenessReason

\* a value was constructed from a non-zero score and a non-empty reason
C10_Witness ==
    /\ call.op = "FNumericAwesomeness(int32, FString)"
    /\ call.InAwesomeness # 0
    /\ call.InAwesomenessReason # ""
    /\ call.ret.Awesomeness = call.InAwesomeness
    /\ call.ret.AwesomenessReason = call.InAwesomenessReason

----------------------------------------------------------------------------
(* Properties that tie the value, the accessor and the classifier together *)

\* C11: v.GetAwesomenessLevel() is AwesomenessLevelFromIntValue of v's score
\* under the threshold of the same state; the reason has no influence.
C11_LevelDelegatesToClassifier ==
    call.op = "FNumericAwesomeness::GetAwesomenessLevel" =>
        /\ call.ret = AwesomenessLevelFromIntValue(call.Self.Awesomeness)
        /\ call.ret = (IF call.Self.Awesomeness < 0
                       THEN NotAwesome
                       ELSE IF call.Self.Awesomeness < CVar_MinAwesomeness
                            THEN SemiAwesome
                            ELSE Awesome)

\* the level of a value with an empty reason and a score at or above a written
\* threshold was asked for
C11_Witness ==
    /\ call.op = "FNumericAwesomeness::GetAwesomenessLevel"
    /\ nWrites > 0
    /\ call.Self.AwesomenessReason = ""
    /\ call.Self.Awesomeness >= CVar_MinAwesomeness
    /\ call.ret = Awesome

\* C13: the threshold is one integer that starts at 100;
\* GetAwesomenessThreshold returns its current value and leaves it alone, and
\* that value is the one the classifier compares against: a score s >= 0 is
\* Awesome exactly when s >= GetAwesomenessThreshold().
C13_ThresholdAccessor ==
    /\ [](nWrites = 0 => CVar_MinAwesomeness = 100)
    /\ [](call.op = "SetMinAwesomeness" => GetAwesomenessThreshold = call.Value)
    /\ []((IsClassify /\ call.Awesomeness >= 0) =>
             (call.ret = Awesome <=> call.Awesomeness >= GetAwesomenessThreshold))
    /\ [][call'.op = "GetAwesomenessThreshold" =>
             /\ call'.ret = CVar_MinAwesomeness
             /\ CVar_MinAwesomeness' = CVar_MinAwesomeness]_vars

\* the accessor was called after a write that changed the threshold
C13_Witness ==
    /\ call.op = "GetAwesomenessThreshold"
    /\ nWrites > 0
    /\ call.ret # DefaultMinAwesomeness
    /\ call.ret = CVar_MinAwesomeness

\* C14: negative thresholds are stored as written, and under a negative
\* threshold every negative score, below, at or above it, is NotAwesome and
\* every score >= 0 is Awesome.
C14_NegativeThreshold ==
    /\ (call.op = "SetMinAwesomeness" /\ call.Value < 0)
           => CVar_MinAwesomeness = call.Value
    /\ (IsClassify /\ CVar_MinAwesomeness < 0) =>
           /\ call.Awesomeness < 0 => call.ret = NotAwesome
           /\ call.Awesomeness >= 0 => call.ret = Awesome

\* score -1 was classified under the threshold -5
C14_Witness ==
    /\ IsClassify
    /\ CVar_MinAwesomeness = -5
    /\ call.Awesomeness = -1
    /\ call.ret = NotAwesome

----------------------------------------------------------------------------
(* Properties of AOUUExampleCharacter *)

\* the calls that classify a score
ClassifyingOps ==
    {"AwesomenessLevelFromIntValue",
     "FNumericAwesomeness::GetAwesomenessLevel",
     "AOUUExampleCharacter::GetAwesomenessLevel"}

\* the score that the classifying call Call classified; Data is the character's
\* data in the state the call returned in
ClassifiedScore(Call, Data) ==
    CASE Call.op = "AwesomenessLevelFromIntValue" -> Call.Awesomeness
      [] Call.op = "FNumericAwesomeness::GetAwesomenessLevel" -> Call.Self.Awesomeness
      [] Call.op = "AOUUExampleCharacter::GetAwesomenessLevel" -> Data.Awesomeness

\* C12: classification is pure: the three classifying calls leave the
\* threshold, the stored score and reason and all character state as they
\* were, and a call that follows another one on the same score, under the same
\* threshold, returns the same level.
C12_ClassificationIsPure ==
    [][call'.op \in ClassifyingOps =>
          /\ CVar_MinAwesomeness' = CVar_MinAwesomeness
          /\ CharacterData' = CharacterData
          /\ characterVars' = characterVars
          /\ (/\ call.op \in ClassifyingOps
              /\ ClassifiedScore(call, CharacterData)
                     = ClassifiedScore(call', CharacterData'))
                 => call'.ret = call.ret]_vars

\* the character's level was read after the free function classified the
\* stored, negative, score under a written threshold
C12_Witness ==
    /\ call.op = "AOUUExampleCharacter::GetAwesomenessLevel"
    /\ nWrites > 0
    /\ CharacterData.Awesomeness < 0
    /\ CharacterData.AwesomenessReason = "set by SetAwesomeness"
    /\ call.ret = NotAwesome

\* C15: whenever the level that the character's GetAwesomenessLevel returns
\* changes, by a SetAwesomeness call or by a threshold change,
\* OnAwesomenessChanged is broadcast with the new level.
C15_EveryLevelChangeIsBroadcast ==
    [][AOUUExampleCharacter_GetAwesomenessLevel' # AOUUExampleCharacter_GetAwesomenessLevel
          => /\ call'.op = "SetAwesomeness"
             /\ Len(call'.Broadcasts) >= 1
             /\ call'.Broadcasts[Len(call'.Broadcasts)].Awesomeness
                    = AOUUExampleCharacter_GetAwesomenessLevel']_vars

\* C16: ColorBodyPart on the head or the torso with Red, Green or Blue returns
\* true and the named part has the given colour afterwards.
C16_ColorBodyPartColorsThePart ==
    (/\ call.op = "ColorBodyPart"
     /\ call.BodyPartName \in {HeadBodyPartName, TorsoBodyPartName}
     /\ call.BodyPartColor \in {Red, Green, Blue})
        => /\ call.returned
           /\ call.ret = TRUE
           /\ call.BodyPartName = HeadBodyPartName => HeadColor = call.BodyPartColor
           /\ call.BodyPartName = TorsoBodyPartName => TorsoColor = call.BodyPartColor

\* C18: a SetAwesomeness call broadcasts at most once, and exactly when the
\* level of the new data differs from the level the old data had when the call
\* began; the payload is the new level.
C18_BroadcastExactlyOnLevelChange ==
    [][call'.op = "SetAwesomeness" =>
          LET LevelBefore == AOUUExampleCharacter_GetAwesomenessLevel
              NewLevel == AwesomenessLevelFromIntValue(call'.Awesomeness)
          IN  /\ Len(call'.Broadcasts) <= 1
              /\ Len(call'.Broadcasts) = 1 <=> NewLevel # LevelBefore
              /\ Len(call'.Broadcasts) = 1
                     => call'.Broadcasts[1].Awesomeness = NewLevel]_vars

\* a SetAwesomeness call made the character Awesome and broadcast it once
C18_Witness ==
    /\ call.op = "SetAwesomeness"
    /\ Len(call.Broadcasts) = 1
    /\ call.Broadcasts[1].Awesomeness = Awesome
    /\ AOUUExampleCharacter_GetAwesomenessLevel = Awesome

\* C19: after SetAwesomeness(a) the stored score is a and the reason is "set
\* by SetAwesomeness", the character's level is the classification of a, and a
\* handler run by the broadcast finds the new data in the character: the level
\* it reads there is the payload.
C19_DataReplacedBeforeNotification ==
    call.op = "SetAwesomeness" =>
        /\ CharacterData.Awesomeness = call.Awesomeness
        /\ CharacterData.AwesomenessReason = "set by SetAwesomeness"
        /\ AOUUExampleCharacter_GetAwesomenessLevel
               = AwesomenessLevelFromIntValue(call.Awesomeness)
        /\ \A i \in 1 .. Len(call.Broadcasts) :
               /\ call.Broadcasts[i].CharacterData = CharacterData
               /\ GetAwesomenessLevel(call.Broadcasts[i].CharacterData)
                      = call.Broadcasts[i].Awesomeness

\* a broadcast of SetAwesomeness ran the handler that BeginPlay bound
C19_Witness ==
    /\ call.op = "SetAwesomeness"
    /\ Len(call.Broadcasts) = 1
    /\ Len(call.Broadcasts[1].Invoked) >= 1
    /\ call.Broadcasts[1].Invoked[1].Handle = BoundDelegateHandle
    /\ call.Broadcasts[1].CharacterData.Awesomeness = call.Awesomeness

\* C20: a SetAwesomeness(a) that directly follows a SetAwesomeness(a), the
\* threshold unchanged in between, broadcasts nothing and leaves score, reason
\* and level as the first call left them.
C20_SecondCallIsSilent ==
    [][(call'.op = "SetAwesomeness" /\ call'.Repeated) =>
          /\ call'.Broadcasts = <<>>
          /\ CharacterData' = CharacterData
          /\ AOUUExampleCharacter_GetAwesomenessLevel'
                 = AOUUExampleCharacter_GetAwesomenessLevel]_vars

\* SetAwesomeness was called a second time in a row on an Awesome score
C20_Witness ==
    /\ call.op = "SetAwesomeness"
    /\ call.Repeated
    /\ call.Broadcasts = <<>>
    /\ AOUUExampleCharacter_GetAwesomenessLevel = Awesome

----------------------------------------------------------------------------
(* Properties of the classifier under concurrent threshold writes *)

\* C17: a classifier call that runs while the console writes the threshold
\* reads the variable at most once, and not at all for a negative score; its
\* result is the classification of the score under one single value that the
\* variable held at the start of the call or was written during it.
C17_OneReadPerCall ==
    /\ thread.pc \notin {"idle"} => thread.nReads <= 1
    /\ thread.pc = "returned" =>
           /\ thread.Awesomeness < 0 =>
                  /\ thread.nReads = 0
                  /\ thread.ret = NotAwesome
           /\ thread.Awesomeness >= 0 =>
                  /\ thread.nReads = 1
                  /\ \E T \in thread.Held :
                         thread.ret = (IF thread.Awesomeness < T
                                       THEN SemiAwesome
                                       ELSE Awesome)

\* a call returned SemiAwesome from the value it read although a write during
\* the call has since put the threshold at or below the score
C17_Witness ==
    /\ thread.pc = "returned"
    /\ Cardinality(thread.Held) >= 2
    /\ thread.Awesomeness >= 0
    /\ thread.Awesomeness >= CVar_MinAwesomeness
    /\ thread.ret = SemiAwesome

----------------------------------------------------------------------------
(* Properties of the character's lifecycle, colours and construction *)

\* C21: when BeginPlay and EndPlay alternate, starting with BeginPlay, the
\* handler is bound at most once at any time; while the actor plays it is bound
\* under BoundDelegateHandle and every broadcast invokes it exactly once; after
\* EndPlay nothing is bound, BoundDelegateHandle is invalid and a broadcast
\* invokes nothing.
C21_BoundWhilePlaying ==
    /\ Len(OnAwesomenessChanged) <= 1
    /\ bActorHasBegunPlay =>
           /\ BoundDelegateHandle # InvalidDelegateHandle
           /\ OnAwesomenessChanged = <<BoundDelegateHandle>>
    /\ ~bActorHasBegunPlay =>
           /\ BoundDelegateHandle = InvalidDelegateHandle
           /\ OnAwesomenessChanged = <<>>
    /\ call.op = "SetAwesomeness" =>
           \A i \in DOMAIN call.Broadcasts :
               IF bActorHasBegunPlay
               THEN /\ Len(call.Broadcasts[i].Invoked) = 1
                    /\ call.Broadcasts[i].Invoked[1].Handle = BoundDelegateHandle
               ELSE call.Broadcasts[i].Invoked = <<>>

\* a broadcast reached the handler exactly once during the second play
C21_Witness ==
    /\ call.op = "SetAwesomeness"
    /\ bActorHasBegunPlay
    /\ BoundDelegateHandle = 2
    /\ Len(call.Broadcasts) = 1
    /\ Len(call.Broadcasts[1].Invoked) = 1

C23_CountIsFatal ==
    /\ [](call.op = "ColorBodyPart" /\ call.BodyPartColor = Count =>
              /\ ~call.returned
              /\ bCrashed)
    /\ [][/\ ~bCrashed
          /\ (call'.op = "ColorBodyPart" /\ call'.BodyPartColor = Count) =>
                 UNCHANGED <<bWasColorChanged, HeadColor, TorsoColor>>]_vars

\* the first ColorBodyPart of a character was called with Count: the process is
\* terminated and the flag is still false
C23_Witness ==
    /\ call.op = "ColorBodyPart"
    /\ call.BodyPartColor = Count
    /\ bCrashed
    /\ ~bWasColorChanged
    /\ HeadColor = Green

\* C24: HasAllColorsPossible returns true exactly when each of Red, Green and
\* Blue is the colour of the head or of the torso; when it returns false it
\* does so at the first colour, in declaration order, that is neither; the call
\* changes nothing.
C24_HasAllColorsPossibleResult ==
    /\ [](call.op = "HasAllColorsPossible" =>
              /\ call.ret <=>
                     \A Color \in {Red, Green, Blue} :
                         HeadColor = Color \/ TorsoColor = Color
              /\ ~call.ret =>
                     /\ call.Color \in {Red, Green, Blue}
                     /\ HeadColor # call.Color
                     /\ TorsoColor # call.Color
                     /\ \A Color \in {Red, Green, Blue} :
                            Color < call.Color =>
                                HeadColor = Color \/ TorsoColor = Color)
    /\ [][call'.op = "HasAllColorsPossible" =>
              UNCHANGED <<CVar_MinAwesomeness, nWrites, characterVars, thread>>]_vars

\* a character with a green head and a red torso was asked: the answer is false,
\* found at Blue, after Red and Green had matched
C24_Witness ==
    /\ call.op = "HasAllColorsPossible"
    /\ HeadColor = Green
    /\ TorsoColor = Red
    /\ call.ret = FALSE
    /\ call.Color = Blue

\* C25: whatever colour the character was constructed with and whatever has been
\* called since, HasAllColorsPossible answers false.
C25_NeverAllColors ==
    /\ HasAllColorsPossible.ret = FALSE
    /\ call.op = "HasAllColorsPossible" => call.ret = FALSE

\* a character constructed blue was asked after ColorBodyPart had run
C25_Witness ==
    /\ call.op = "HasAllColorsPossible"
    /\ call.ret = FALSE
    /\ HeadColor = Blue
    /\ bWasColorChanged

\* C26: a freshly constructed character has the head colour the constructor was
\* given, Red for the default constructor, a red torso, bWasColorChanged false,
\* Score 0, CharacterData with score 0 and an empty reason, nothing bound and an
\* invalid handle; under the threshold 100 its level is SemiAwesome.
C26_FreshlyConstructed ==
    /\ call.op = "AOUUExampleCharacter()" => HeadColor = Red
    /\ call.op = "AOUUExampleCharacter(USkeletalMesh*, EOUUExampleBodyPartColor)" =>
           HeadColor = call.InHeadColor
    /\ call.op \in {"AOUUExampleCharacter()",
                    "AOUUExampleCharacter(USkeletalMesh*, EOUUExampleBodyPartColor)"} =>
           /\ TorsoColor = Red
           /\ bWasColorChanged = FALSE
           /\ Score = 0
           /\ CharacterData = [AwesomenessReason |-> "", Awesomeness |-> 0]
           /\ OnAwesomenessChanged = <<>>
           /\ BoundDelegateHandle = InvalidDelegateHandle
           /\ CVar_MinAwesomeness = 100 =>
                  AOUUExampleCharacter_GetAwesomenessLevel = SemiAwesome

\* a character was just constructed with a blue head
C26_Witness ==
    /\ call.op = "AOUUExampleCharacter(USkeletalMesh*, EOUUExampleBodyPartColor)"
    /\ call.InHeadColor = Blue
    /\ HeadColor = Blue
    /\ TorsoColor = Red

\* C27: under the threshold of the moment, a < b implies level(a) <= level(b)
\* in the order NotAwesome < SemiAwesome < Awesome, and a == b implies
\* level(a) = level(b).
C27_ClassificationIsMonotone ==
    call.op = "ClassifyPair" =>
        /\ call.lt => call.LevelLHS <= call.LevelRHS
        /\ call.eq => call.LevelLHS = call.LevelRHS

\* under a negative threshold a smaller value was NotAwesome and a larger one
\* Awesome
C27_Witness ==
    /\ call.op = "ClassifyPair"
    /\ CVar_MinAwesomeness < 0
    /\ call.lt
    /\ call.LevelLHS = NotAwesome
    /\ call.LevelRHS = Awesome

====
